---- MODULE Spec2Model ----
(***************************************************************************)
(* Model of tune-prompt.py: the interactive prompt tuning loop              *)
(* (prompt_tuning_loop), the learning store (prompt_history and             *)
(* session_summary tables) and the helpers the loop calls.                  *)
(*                                                                         *)
(* Texts are sequences of tokens.  A token is a one-character string, a     *)
(* literal chunk, or a whole replacement field of the str.format grammar    *)
(* ("{a}", "{a.b}", "{}") or a single unmatched brace ("{").                *)
(***************************************************************************)
EXTENDS Integers, Sequences, FiniteSets, TLC

(***************************************************************************)
(* Bounds of the model.                                                     *)
(***************************************************************************)
\* number of script runs (process invocations) against one store
MaxRuns == 2
\* number of turns (iterations in which feedback is read), over all runs
MaxTurns == 2
\* number of runs in the specification of the variable mapping
MaxVarRuns == 1

Procs == {"p1", "p2"}
\* the processes that run in the single-writer specification
Writers == {"p1"}

\* session = None (non-learning mode)
NoSession == 0

\* the values a variable can have (typed by the user, or loaded)
Values == {"v1"}
Responses == {"r1"}

(***************************************************************************)
(* Texts: whitespace, str.strip(), str.split(), str.lower().                *)
(***************************************************************************)
IsSpace(c) == c = " "

SetMin(S) == CHOOSE i \in S : \A j \in S : i <= j
SetMax(S) == CHOOSE i \in S : \A j \in S : j <= i

\* str.strip(): drop leading and trailing whitespace
Strip(s) ==
    LET keep == {i \in 1..Len(s) : ~IsSpace(s[i])}
    IN  IF keep = {} THEN <<>> ELSE SubSeq(s, SetMin(keep), SetMax(keep))

\* str.split(): the whitespace-delimited words, in order
RECURSIVE Split(_)
Split(s) ==
    LET t == Strip(s)
    IN  IF t = <<>> THEN <<>>
        ELSE LET sp  == {i \in 1..Len(t) : IsSpace(t[i])}
                 end == IF sp = {} THEN Len(t) ELSE SetMin(sp) - 1
             IN  <<SubSeq(t, 1, end)>> \o Split(SubSeq(t, end + 1, Len(t)))

LowerChar(c) == CASE c = "S" -> "s" [] c = "G" -> "g" [] c = "Y" -> "y" [] OTHER -> c
\* str.lower()
Lower(w) == [i \in 1..Len(w) |-> LowerChar(w[i])]

(***************************************************************************)
(* The replacement fields of the templates: what the format-string grammar  *)
(* makes of each field token.  first is the part of the field name that is  *)
(* looked up in the keyword arguments, rest the attribute lookup after it.  *)
(***************************************************************************)
Lexicon ==
    { [tok |-> "{a}",   first |-> "a", rest |-> ""],
      [tok |-> "{w}",   first |-> "w", rest |-> ""],
      [tok |-> "{a.b}", first |-> "a", rest |-> ".b"],
      [tok |-> "{}",    first |-> "",  rest |-> ""] }
FieldTokens == {e.tok : e \in Lexicon}
Entry(tok) == CHOOSE e \in Lexicon : e.tok = tok
\* an unmatched single brace
StrayBrace == "{"

\* the field_name that string.Formatter.parse yields for a field
field_name(tok) == Entry(tok).first \o Entry(tok).rest

\* formatter.parse(template) fails on an unmatched brace
ParseFails(template) == \E i \in 1..Len(template) : template[i] = StrayBrace

\* keys = {fname for _, fname, _, _ in formatter.parse(template) if fname}
Placeholders(template) ==
    {field_name(template[i]) :
        i \in {j \in 1..Len(template) :
                 template[j] \in FieldTokens /\ field_name(template[j]) # ""}}

(***************************************************************************)
(* current_prompt.format over the variables: the tokens are handled left    *)
(* to right and the first failure is the outcome.                           *)
(***************************************************************************)
FormatToken(tok, vars) ==
    IF tok = StrayBrace THEN [kind |-> "error", key |-> "", text |-> <<>>]
    ELSE IF tok \notin FieldTokens THEN [kind |-> "ok", key |-> "", text |-> <<tok>>]
    ELSE LET e == Entry(tok)
         IN  IF e.first = "" THEN [kind |-> "error", key |-> "", text |-> <<>>]
             ELSE IF e.first \notin DOMAIN vars
                  THEN [kind |-> "KeyError", key |-> e.first, text |-> <<>>]
             ELSE IF e.rest # "" THEN [kind |-> "error", key |-> "", text |-> <<>>]
             ELSE [kind |-> "ok", key |-> "", text |-> <<vars[e.first]>>]

RECURSIVE Format(_, _)
Format(template, vars) ==
    IF template = <<>> THEN [kind |-> "ok", key |-> "", text |-> <<>>]
    ELSE LET h == FormatToken(Head(template), vars)
         IN  IF h.kind # "ok" THEN h
             ELSE LET t == Format(Tail(template), vars)
                  IN  IF t.kind # "ok" THEN t
                      ELSE [kind |-> "ok", key |-> "", text |-> h.text \o t.text]

MissingWhenEmpty(template, vars) ==
    IF DOMAIN vars = {} THEN Placeholders(template) ELSE {}

\* input_missing_vars: the names the user is asked for
Missing(template, vars) == Placeholders(template) \ DOMAIN vars

(***************************************************************************)
(* The inputs of a run.                                                     *)
(***************************************************************************)
EmptyVars == [k \in {} |-> "v1"]
EmptyText == <<>>

\* the templates a file, the prompts database or the console can supply
InitTemplates ==
    { <<"x", "{a}">>, <<"{a}", "{w}">>, <<"{a.b}">>, <<"{">>, <<"{}">> }
\* the variables the prompts database or the variables file can supply
InitVars == {EmptyVars} \cup {[k \in {"a"} |-> v] : v \in Values}
\* what the backend can answer to the revision meta-prompt
RevisionOutputs ==
    { <<"x", "{a}">>, <<" ", "{a}", "{w}", " ">>, <<"{a.b}">>, <<"{">> }
\* what the backend can answer to the classification prompt
ClassifierOutputs ==
    { <<>>, <<" ">>, <<"S">>, <<" ", "g", " ">>, <<"s", " ", "g">> }
\* what the backend can answer to the summary meta-prompt
SummaryOutputs == { <<"m">>, <<" ", "n">>, <<" ">> }
\* what the user can type when asked for problems
FeedbackInputs == { <<>>, <<" ">>, <<" ", "f", " ">> }
\* what the user can type when asked to accept
AcceptInputs == { <<"y">>, <<" ", "Y">>, <<"n">>, <<>> }

(***************************************************************************)
(* The learning store.                                                      *)
(***************************************************************************)
next_session_id_count(history) == Len(history) + 1

\* SELECT MAX(session) FROM prompt_history; session = row[0] + 1, or 1
next_session_id(history) ==
    IF history = <<>> THEN 1
    ELSE SetMax({history[i].session : i \in 1..Len(history)}) + 1

save_to_db_replace(history, session_, type, prompt, result, feedback, accepted_) ==
    LET rec == [session |-> session_, type |-> type, prompt |-> prompt,
                result |-> result, feedback |-> feedback, accepted |-> accepted_]
    IN  IF history # <<>> /\ history[Len(history)].session = session_
        THEN [history EXCEPT ![Len(history)] = rec]
        ELSE Append(history, rec)

save_to_db_no_feedback(history, session_, type, prompt, result, feedback, accepted_) ==
    Append(history, [session |-> session_, type |-> type, prompt |-> prompt,
                     result |-> result, feedback |-> EmptyText,
                     accepted |-> accepted_])

\* INSERT INTO prompt_history
save_to_db(history, session_, type, prompt, result, feedback, accepted_) ==
    Append(history, [session |-> session_, type |-> type, prompt |-> prompt,
                     result |-> result, feedback |-> feedback,
                     accepted |-> accepted_])

\* SELECT summary FROM session_summary WHERE type=?
get_session_summary(table, type) ==
    LET rows == {r \in table : r.type = type}
    IN  IF rows = {} THEN EmptyText ELSE (CHOOSE r \in rows : TRUE).summary

save_session_summary_ignore(table, type, summary) ==
    IF \E r \in table : r.type = type THEN table
    ELSE table \cup {[type |-> type, summary |-> summary]}

save_session_summary_insert(table, type, summary) ==
    table \cup {[type |-> type, summary |-> summary]}

\* INSERT ... ON CONFLICT(type) DO UPDATE SET summary=excluded.summary
save_session_summary(table, type, summary) ==
    {r \in table : r.type # type} \cup {[type |-> type, summary |-> summary]}

\* line 431: if prev_summary, the summary meta-prompt merges the previous
\* summary with the feedbacks, otherwise it summarizes the feedbacks alone
summary_shape(prev_summary_) ==
    IF prev_summary_ # EmptyText THEN "merge" ELSE "alone"

session_feedbacks_with_empty(history, session_) ==
    LET idx == {i \in 1..Len(history) : history[i].session = session_}
        F[n \in 0..Len(history)] ==
            IF n = 0 THEN <<>>
            ELSE IF n \in idx THEN Append(F[n - 1], history[n].feedback)
                 ELSE F[n - 1]
    IN  F[Len(history)]

session_feedbacks_all(history, session_) ==
    LET idx == {i \in 1..Len(history) : history[i].feedback # EmptyText}
        F[n \in 0..Len(history)] ==
            IF n = 0 THEN <<>>
            ELSE IF n \in idx THEN Append(F[n - 1], history[n].feedback)
                 ELSE F[n - 1]
    IN  F[Len(history)]

\* SELECT feedback FROM prompt_history WHERE session=? AND feedback != ""
session_feedbacks(history, session_) ==
    LET idx == {i \in 1..Len(history) :
                  history[i].session = session_ /\ history[i].feedback # EmptyText}
        F[n \in 0..Len(history)] ==
            IF n = 0 THEN <<>>
            ELSE IF n \in idx THEN Append(F[n - 1], history[n].feedback)
                 ELSE F[n - 1]
    IN  F[Len(history)]

(***************************************************************************)
(* State.                                                                   *)
(*   prompt_history   the Turn Records, in insertion (id) order             *)
(*   session_summary  the rows of the session_summary table                 *)
(*   proc[p]          the local variables of prompt_tuning_loop in process  *)
(*                    p and the place it has reached (pc)                   *)
(*   obs[p]           observations about the run of p (history variables)   *)
(*   runs             the number of runs started so far                     *)
(*   allocated        the session ids computed by the learning-mode runs    *)
(*   turns            the number of turns (feedback read) so far            *)
(*   written_by       per Turn Record, the number of the run that wrote it  *)
(*   last_saved       per task type, the text last given to                 *)
(*                    save_session_summary (a sequence of length 1), or     *)
(*                    the empty sequence when there was none                *)
(*   stored_vars      the variable mappings that the prompts database and   *)
(*                    the variables file can supply to a run                *)
(***************************************************************************)
VARIABLES prompt_history, session_summary, proc, obs, runs, turns,
          allocated, written_by, last_saved, stored_vars

vars == <<prompt_history, session_summary, proc, obs, runs, turns,
          allocated, written_by, last_saved, stored_vars>>

store == <<prompt_history, session_summary>>

TaskTypes == { Lower(Split(raw)[1]) : raw \in {r \in ClassifierOutputs : Split(r) # <<>>} }

\* places where a run has ended
Ended == {"idle", "done", "rejected", "crashed"}

IdleProc ==
    [ pc |-> "idle", learn |-> FALSE, session |-> NoSession,
      prompt_type |-> EmptyText, current_prompt |-> EmptyText,
      variables |-> EmptyVars, filled_prompt |-> EmptyText, response |-> "",
      problems |-> EmptyText, accepted |-> 0, rev_summary |-> EmptyText,
      prev_summary |-> EmptyText, feedbacks |-> <<>>, shape |-> "" ]

IdleObs ==
    [ fed |-> FALSE, asked |-> FALSE, revisions |-> 0, rendered |-> FALSE,
      fail_at |-> "", consolidated |-> 0, answered |-> FALSE, typed |-> <<>>,
      iter_store |-> <<<<>>, {}>>, solicited |-> "",
      served |-> <<EmptyText, "">>, executed |-> FALSE, revision_raw |-> <<>>,
      answer |-> <<>>, run |-> 0, decided |-> 0 ]

Init ==
    /\ prompt_history = <<>>
    /\ session_summary = {}
    /\ proc = [p \in Procs |-> IdleProc]
    /\ obs = [p \in Procs |-> IdleObs]
    /\ runs = 0
    /\ turns = 0
    /\ allocated = <<>>
    /\ written_by = <<>>
    /\ last_saved = [t \in TaskTypes |-> <<>>]
    /\ stored_vars = InitVars

\* the state of the loop at its top: a new iteration begins
NewIteration(o, history, table) ==
    [o EXCEPT !.fed = FALSE, !.asked = FALSE, !.solicited = "", !.typed = <<>>,
              !.rendered = FALSE, !.executed = FALSE,
              !.iter_store = <<history, table>>]

(***************************************************************************)
(* prompt_tuning_loop, lines 306-316: open the store, compute the session.  *)
(***************************************************************************)
StartReserved(p, learn_) ==
    /\ proc[p].pc \in Ended
    /\ runs < MaxRuns
    /\ runs' = runs + 1
    /\ proc' = [proc EXCEPT ![p] =
           [IdleProc EXCEPT !.pc = "load", !.learn = learn_,
                            !.session = IF learn_ THEN Len(allocated) + 1
                                        ELSE NoSession]]
    /\ obs' = [obs EXCEPT ![p] = [IdleObs EXCEPT !.run = runs + 1]]
    /\ allocated' = IF learn_ THEN Append(allocated, Len(allocated) + 1)
                    ELSE allocated
    /\ UNCHANGED <<prompt_history, written_by, session_summary, turns, last_saved, stored_vars>>

Start(p, learn_) ==
    /\ proc[p].pc \in Ended
    /\ runs < MaxRuns
    /\ runs' = runs + 1
    /\ proc' = [proc EXCEPT ![p] =
           [IdleProc EXCEPT !.pc = "load", !.learn = learn_,
                            !.session = IF learn_ THEN next_session_id(prompt_history)
                                        ELSE NoSession]]
    /\ obs' = [obs EXCEPT ![p] = [IdleObs EXCEPT !.run = runs + 1]]
    /\ allocated' = IF learn_ THEN Append(allocated, next_session_id(prompt_history))
                    ELSE allocated
    /\ UNCHANGED <<prompt_history, written_by, session_summary, turns, last_saved, stored_vars>>

LoadAlwaysDetects(p) ==
    /\ proc[p].pc = "load"
    /\ \E t \in InitTemplates, v \in stored_vars :
          proc' = [proc EXCEPT ![p].current_prompt = t, ![p].variables = v,
                               ![p].pc = "detect"]
    /\ UNCHANGED <<prompt_history, written_by, session_summary, obs, runs, turns, allocated,
                   last_saved, stored_vars>>

\* lines 319-325: load_prompt_and_variables
Load(p) ==
    /\ proc[p].pc = "load"
    /\ \E t \in InitTemplates, v \in stored_vars :
          proc' = [proc EXCEPT ![p].current_prompt = t, ![p].variables = v,
                               ![p].pc = IF proc[p].learn THEN "detect" ELSE "fill"]
    /\ UNCHANGED <<prompt_history, written_by, session_summary, obs, runs, turns, allocated,
                   last_saved, stored_vars>>

\* detect_prompt_type: result.strip().split()[0].lower()
FirstWordLower(raw) == Lower(Split(Strip(raw))[1])

\* lines 328-330: the classifier; an answer without a word ends the run
\* (IndexError)
Detect(p) ==
    /\ proc[p].pc = "detect"
    /\ \E raw \in ClassifierOutputs :
          IF Split(Strip(raw)) = <<>>
          THEN /\ proc' = [proc EXCEPT ![p].pc = "crashed"]
               /\ obs' = [obs EXCEPT ![p].fail_at = "classify"]
          ELSE /\ proc' = [proc EXCEPT ![p].prompt_type = FirstWordLower(raw),
                                       ![p].pc = "fill"]
               /\ obs' = obs
    /\ UNCHANGED <<prompt_history, written_by, session_summary, runs, turns, allocated,
                   last_saved, stored_vars>>

\* input_missing_vars: every missing key gets the value the user types
input_missing_vars_all(template, variables_) ==
    { f @@ variables_ : f \in [Placeholders(template) -> Values] }

input_missing_vars(template, variables_) ==
    { f @@ variables_ : f \in [Missing(template, variables_) -> Values] }

\* lines 333-342: variables file, then input_missing_vars; formatter.parse
\* raises on a malformed template (ValueError, not caught)
Fill(p) ==
    /\ proc[p].pc = "fill"
    /\ \E fv \in stored_vars :
          LET v0 == IF proc[p].variables = EmptyVars THEN fv ELSE proc[p].variables
          IN  IF ParseFails(proc[p].current_prompt)
              THEN /\ proc' = [proc EXCEPT ![p].variables = v0, ![p].pc = "crashed"]
                   /\ obs' = [obs EXCEPT ![p].fail_at = "parse"]
              ELSE /\ \E v1 \in input_missing_vars(proc[p].current_prompt, v0) :
                         proc' = [proc EXCEPT ![p].variables = v1, ![p].pc = "format"]
                   /\ obs' = [obs EXCEPT ![p] = NewIteration(@, prompt_history, session_summary)]
    /\ UNCHANGED <<prompt_history, written_by, session_summary, runs, turns, allocated,
                   last_saved, stored_vars>>

(***************************************************************************)
(* The loop, lines 344-449.                                                 *)
(***************************************************************************)
FormatOkSkipsExecute(p) ==
    /\ proc[p].pc = "format"
    /\ Format(proc[p].current_prompt, proc[p].variables).kind = "ok"
    /\ proc' = [proc EXCEPT
           ![p].filled_prompt = Format(proc[p].current_prompt, proc[p].variables).text,
           ![p].pc = "feedback"]
    /\ obs' = [obs EXCEPT ![p].rendered = TRUE]
    /\ UNCHANGED <<prompt_history, written_by, session_summary, runs, turns, allocated,
                   last_saved, stored_vars>>

\* lines 346-347: the template renders
FormatOk(p) ==
    /\ proc[p].pc = "format"
    /\ Format(proc[p].current_prompt, proc[p].variables).kind = "ok"
    /\ proc' = [proc EXCEPT
           ![p].filled_prompt = Format(proc[p].current_prompt, proc[p].variables).text,
           ![p].pc = "execute"]
    /\ obs' = [obs EXCEPT ![p].rendered = TRUE]
    /\ UNCHANGED <<prompt_history, written_by, session_summary, runs, turns, allocated,
                   last_saved, stored_vars>>

FormatKeyErrorNoContinue(p) ==
    /\ proc[p].pc = "format"
    /\ Format(proc[p].current_prompt, proc[p].variables).kind = "KeyError"
    /\ LET key == Format(proc[p].current_prompt, proc[p].variables).key
       IN  /\ \E val \in Values :
                 proc' = [proc EXCEPT ![p].variables = (key :> val) @@ @,
                                      ![p].pc = "execute"]
           /\ obs' = [obs EXCEPT ![p].solicited = key]
    /\ UNCHANGED <<prompt_history, written_by, session_summary, runs, turns, allocated,
                   last_saved, stored_vars>>

\* lines 348-352: KeyError; ask for e.args[0], store it, continue
FormatKeyError(p) ==
    /\ proc[p].pc = "format"
    /\ Format(proc[p].current_prompt, proc[p].variables).kind = "KeyError"
    /\ LET key == Format(proc[p].current_prompt, proc[p].variables).key
       IN  /\ \E val \in Values :
                 proc' = [proc EXCEPT ![p].variables = (key :> val) @@ @]
           /\ obs' = [obs EXCEPT ![p] =
                  [NewIteration(@, prompt_history, session_summary)
                       EXCEPT !.solicited = key]]
    /\ UNCHANGED <<prompt_history, written_by, session_summary, runs, turns, allocated,
                   last_saved, stored_vars>>

FormatErrorNoBreak(p) ==
    /\ proc[p].pc = "format"
    /\ Format(proc[p].current_prompt, proc[p].variables).kind = "error"
    /\ proc' = [proc EXCEPT ![p].pc = "execute"]
    /\ UNCHANGED <<prompt_history, written_by, session_summary, obs, runs, turns, allocated,
                   last_saved, stored_vars>>

\* lines 353-356: any other exception; break
FormatError(p) ==
    /\ proc[p].pc = "format"
    /\ Format(proc[p].current_prompt, proc[p].variables).kind = "error"
    /\ proc' = [proc EXCEPT ![p].pc = "rejected"]
    /\ UNCHANGED <<prompt_history, written_by, session_summary, obs, runs, turns, allocated,
                   last_saved, stored_vars>>

\* line 361: the backend answers the rendered prompt
Execute(p) ==
    /\ proc[p].pc = "execute"
    /\ \E r \in Responses :
          /\ proc' = [proc EXCEPT ![p].response = r, ![p].pc = "feedback"]
          /\ obs' = [obs EXCEPT ![p].served = <<proc[p].filled_prompt, r>>,
                                 ![p].executed = TRUE]
    /\ UNCHANGED <<prompt_history, written_by, session_summary, runs, turns, allocated, last_saved, stored_vars>>

HasProblemsAlways(problems_) == TRUE

HasProblemsNever(problems_) == FALSE

\* line 369: if problems
HasProblems(problems_) == problems_ # EmptyText

\* lines 365-376 and 405: read the feedback; with problems, read the summary
\* and go on to the revision call, without problems ask for acceptance
Feedback(p) ==
    /\ proc[p].pc = "feedback"
    /\ turns < MaxTurns
    /\ turns' = turns + 1
    /\ \E raw \in FeedbackInputs :
          LET problems_ == Strip(raw)
          IN  IF HasProblems(problems_)
              THEN /\ proc' = [proc EXCEPT
                          ![p].problems = problems_,
                          ![p].accepted = 0,
                          ![p].rev_summary =
                              IF proc[p].learn
                              THEN get_session_summary(session_summary, proc[p].prompt_type)
                              ELSE EmptyText,
                          ![p].pc = "revise"]
                   /\ obs' = [obs EXCEPT ![p].fed = TRUE, ![p].typed = raw]
              ELSE /\ proc' = [proc EXCEPT ![p].problems = problems_,
                                           ![p].pc = "accept"]
                   /\ obs' = [obs EXCEPT ![p].fed = TRUE, ![p].typed = raw,
                                          ![p].asked = TRUE]
    /\ UNCHANGED <<prompt_history, written_by, session_summary, runs, allocated, last_saved, stored_vars>>

ReviseReclassifies(p) ==
    /\ proc[p].pc = "revise"
    /\ prompt_history' =
           IF proc[p].learn
           THEN save_to_db(prompt_history, proc[p].session, proc[p].prompt_type,
                           proc[p].filled_prompt, proc[p].response,
                           proc[p].problems, 0)
           ELSE prompt_history
    /\ written_by' = IF proc[p].learn THEN Append(written_by, obs[p].run)
                      ELSE written_by
    /\ \E raw \in RevisionOutputs, label \in ClassifierOutputs :
          /\ proc' = [proc EXCEPT ![p].current_prompt = Strip(raw),
                                  ![p].prompt_type =
                                      IF proc[p].learn /\ Split(Strip(label)) # <<>>
                                      THEN FirstWordLower(label) ELSE @,
                                  ![p].pc = "format"]
          /\ obs' = [obs EXCEPT ![p] =
                 [NewIteration(@, prompt_history', session_summary)
                      EXCEPT !.revisions = @ + 1, !.decided = @ + 1,
                             !.revision_raw = raw]]
    /\ UNCHANGED <<session_summary, runs, turns, allocated, last_saved, stored_vars>>

\* lines 393-402: the backend answers the revision meta-prompt; the answer
\* becomes the template, the turn is saved, the loop starts over
Revise(p) ==
    /\ proc[p].pc = "revise"
    /\ prompt_history' =
           IF proc[p].learn
           THEN save_to_db(prompt_history, proc[p].session, proc[p].prompt_type,
                           proc[p].filled_prompt, proc[p].response,
                           proc[p].problems, 0)
           ELSE prompt_history
    /\ written_by' = IF proc[p].learn THEN Append(written_by, obs[p].run)
                      ELSE written_by
    /\ \E raw \in RevisionOutputs :
          /\ proc' = [proc EXCEPT ![p].current_prompt = Strip(raw), ![p].pc = "format"]
          /\ obs' = [obs EXCEPT ![p] =
                 [NewIteration(@, prompt_history', session_summary)
                      EXCEPT !.revisions = @ + 1, !.decided = @ + 1,
                             !.revision_raw = raw]]
    /\ UNCHANGED <<session_summary, runs, turns, allocated, last_saved, stored_vars>>

AcceptedNoLower(raw) == IF Strip(raw) = <<"y">> THEN 1 ELSE 0

\* line 406: accepted = 1 if accept_choice == 'y' else 0
Accepted(raw) == IF Lower(Strip(raw)) = <<"y">> THEN 1 ELSE 0

\* lines 405-408: the answer to the acceptance prompt; the turn is saved
Accept(p) ==
    /\ proc[p].pc = "accept"
    /\ \E raw \in AcceptInputs :
          /\ proc' = [proc EXCEPT ![p].accepted = Accepted(raw),
                                  ![p].pc = "save_files"]
          /\ obs' = [obs EXCEPT ![p].answered = TRUE, ![p].answer = raw,
                                 ![p].decided = @ + 1]
          /\ prompt_history' =
                 IF proc[p].learn
                 THEN save_to_db(prompt_history, proc[p].session,
                                 proc[p].prompt_type, proc[p].filled_prompt,
                                 proc[p].response, proc[p].problems, Accepted(raw))
                 ELSE prompt_history
    /\ written_by' = IF proc[p].learn THEN Append(written_by, obs[p].run)
                      ELSE written_by
    /\ UNCHANGED <<session_summary, runs, turns, allocated, last_saved, stored_vars>>

SaveFilesAndExit(p) ==
    /\ proc[p].pc = "save_files"
    /\ proc' = [proc EXCEPT ![p].pc = "done"]
    /\ UNCHANGED <<prompt_history, written_by, session_summary, obs, runs, turns, allocated,
                   last_saved, stored_vars>>

\* lines 410-428 and 448-449: the two file questions; in learning mode the
\* previous summary and the feedbacks of the session are read and the
\* summary call is made, otherwise the loop is left
SaveFiles(p) ==
    /\ proc[p].pc = "save_files"
    /\ proc' = [proc EXCEPT
           ![p].prev_summary =
               IF proc[p].learn
               THEN get_session_summary(session_summary, proc[p].prompt_type)
               ELSE @,
           ![p].feedbacks =
               IF proc[p].learn
               THEN session_feedbacks(prompt_history, proc[p].session)
               ELSE @,
           ![p].shape =
               IF proc[p].learn
               THEN summary_shape(get_session_summary(session_summary,
                                                      proc[p].prompt_type))
               ELSE @,
           ![p].pc = IF proc[p].learn THEN "summarize" ELSE "done"]
    /\ UNCHANGED <<prompt_history, written_by, session_summary, obs, runs, turns, allocated,
                   last_saved, stored_vars>>

\* lines 445-449: the backend answers the summary meta-prompt; upsert; break
Summarize(p) ==
    /\ proc[p].pc = "summarize"
    /\ \E raw \in SummaryOutputs :
          /\ session_summary' =
                 save_session_summary(session_summary, proc[p].prompt_type, Strip(raw))
          /\ last_saved' = [last_saved EXCEPT ![proc[p].prompt_type] =
                                <<Strip(raw)>>]
    /\ proc' = [proc EXCEPT ![p].pc = "done"]
    /\ obs' = [obs EXCEPT ![p].consolidated = @ + 1]
    /\ UNCHANGED <<prompt_history, written_by, runs, turns, allocated, stored_vars>>

QueryFailsAfterSave(p) ==
    /\ proc[p].pc \in {"detect", "execute", "revise", "summarize"}
    /\ proc' = [proc EXCEPT ![p].pc = "crashed"]
    /\ obs' = [obs EXCEPT ![p].fail_at = proc[p].pc]
    /\ prompt_history' =
           IF proc[p].pc = "revise" /\ proc[p].learn
           THEN save_to_db(prompt_history, proc[p].session, proc[p].prompt_type,
                           proc[p].filled_prompt, proc[p].response,
                           proc[p].problems, 0)
           ELSE prompt_history
    /\ written_by' = IF proc[p].pc = "revise" /\ proc[p].learn
                      THEN Append(written_by, obs[p].run) ELSE written_by
    /\ UNCHANGED <<session_summary, runs, turns, allocated, last_saved, stored_vars>>

\* query raises (the backend fails); nothing in the loop catches it
QueryFails(p) ==
    /\ proc[p].pc \in {"detect", "execute", "revise", "summarize"}
    /\ proc' = [proc EXCEPT ![p].pc = "crashed"]
    /\ obs' = [obs EXCEPT ![p].fail_at = proc[p].pc]
    /\ UNCHANGED <<prompt_history, written_by, session_summary, runs, turns, allocated,
                   last_saved, stored_vars>>

\* lines 412, 420: open(..., 'w') raises; nothing catches it
FileSaveFails(p) ==
    /\ proc[p].pc = "save_files"
    /\ proc' = [proc EXCEPT ![p].pc = "crashed"]
    /\ obs' = [obs EXCEPT ![p].fail_at = "save_files"]
    /\ UNCHANGED <<prompt_history, written_by, session_summary, runs, turns, allocated,
                   last_saved, stored_vars>>

Step(p) ==
    \/ \E learn_ \in BOOLEAN : Start(p, learn_)
    \/ Load(p)
    \/ Detect(p)
    \/ Fill(p)
    \/ FormatOk(p)
    \/ FormatKeyError(p)
    \/ FormatError(p)
    \/ Execute(p)
    \/ Feedback(p)
    \/ Revise(p)
    \/ Accept(p)
    \/ SaveFiles(p)
    \/ Summarize(p)
    \/ QueryFails(p)
    \/ FileSaveFails(p)

\* one process at a time uses the store (single writer)
Next == \E p \in Writers : Step(p)

Spec == Init /\ [][Next]_vars

\* two processes share the store; their steps interleave between the
\* statements that touch it (each write is committed at once)
NextConc == \E p \in Procs : Step(p)

SpecConc == Init /\ [][NextConc]_vars

\* a variables file (or database) whose value differs from what the user
\* types
StoredVars == {EmptyVars} \cup {[k \in {"a"} |-> "v0"]}

InitStored ==
    /\ prompt_history = <<>>
    /\ session_summary = {}
    /\ proc = [p \in Procs |-> IdleProc]
    /\ obs = [p \in Procs |-> IdleObs]
    /\ runs = 0
    /\ turns = 0
    /\ allocated = <<>>
    /\ written_by = <<>>
    /\ last_saved = [t \in TaskTypes |-> <<>>]
    /\ stored_vars = StoredVars

\* the runs of one process over such a store of variables
NextVars == \E p \in Writers : Step(p) /\ runs' <= MaxVarRuns

SpecVars == InitStored /\ [][NextVars]_vars

TypeOK ==
    /\ runs \in 0..MaxRuns
    /\ \A p \in Procs : proc[p].pc \in Ended \cup
          {"load", "detect", "fill", "format", "execute", "feedback", "revise",
           "accept", "save_files", "summarize"}

(***************************************************************************)
(* Properties.                                                              *)
(***************************************************************************)
SummaryTexts == {Strip(raw) : raw \in SummaryOutputs}

\* C1: in an iteration in which feedback was read, the acceptance prompt is
\* issued if and only if the typed feedback is empty after stripping; it is
\* never issued in an iteration before feedback was read.
C1_AcceptIffNoFeedback ==
    \A p \in Procs :
        /\ obs[p].fed => (obs[p].asked <=> Strip(obs[p].typed) = EmptyText)
        /\ obs[p].asked => obs[p].fed
        /\ proc[p].pc = "revise" => obs[p].fed /\ ~obs[p].asked
        /\ proc[p].pc = "accept" => obs[p].fed /\ obs[p].asked

\* whitespace-only feedback was typed and the acceptance prompt was issued
C1_Witness ==
    \E p \in Procs :
        obs[p].fed /\ obs[p].typed = <<" ">> /\ obs[p].asked /\ proc[p].pc = "accept"

\* C2: the session ids handed to successive learning-mode runs are strictly
\* increasing, and each is greater than every persisted session id.
C2_SessionStrictlyIncreasing ==
    /\ \A i, j \in 1..Len(allocated) : i < j => allocated[i] < allocated[j]
    /\ \A p \in Procs :
          proc[p].pc = "load" /\ proc[p].learn =>
              \A k \in 1..Len(prompt_history) :
                  prompt_history[k].session < proc[p].session

\* C3: a learning-mode run gets the greatest persisted session id plus one,
\* or 1 when there is no Turn Record; a non-learning run gets none.
C3_SessionIsMaxPlusOne ==
    \A p \in Procs :
        /\ proc[p].pc = "load" /\ proc[p].learn =>
              /\ proc[p].session >= 1
              /\ prompt_history = <<>> => proc[p].session = 1
              /\ \A k \in 1..Len(prompt_history) :
                     prompt_history[k].session <= proc[p].session - 1
              /\ prompt_history # <<>> =>
                     \E k \in 1..Len(prompt_history) :
                         prompt_history[k].session = proc[p].session - 1
              /\ allocated # <<>> /\ allocated[Len(allocated)] = proc[p].session
        /\ proc[p].pc \notin Ended /\ ~proc[p].learn => proc[p].session = NoSession
        /\ \A i \in 1..Len(allocated) : allocated[i] # NoSession

\* a learning-mode run has started on a store that holds two Turn Records
C3_Witness ==
    \E p \in Procs :
        proc[p].pc = "load" /\ proc[p].learn /\ Len(prompt_history) = 2
        /\ proc[p].session = 2

\* C4: every step leaves the Turn Records written so far in place and
\* unchanged; it can only append.
C4_TurnsAppendOnly ==
    [][ /\ Len(prompt_history') >= Len(prompt_history)
        /\ SubSeq(prompt_history', 1, Len(prompt_history)) = prompt_history
        /\ \A n \in 1..MaxRuns :
              Cardinality({k \in 1..Len(prompt_history') : prompt_history'[k].session = n})
                >= Cardinality({k \in 1..Len(prompt_history) : prompt_history[k].session = n})
      ]_vars

\* two Turn Records of one session are stored and a summary has been saved
C4_Witness ==
    /\ Len(prompt_history) = 2
    /\ prompt_history[1].session = prompt_history[2].session
    /\ session_summary # {}

\* C5: get_session_summary returns the text last given to
\* save_session_summary for the type, and the empty text for a type never
\* written; two saves in a row leave the second text, whatever the table held.
C5_UpsertLastWriteWins ==
    /\ \A t \in TaskTypes :
          get_session_summary(session_summary, t) =
              IF last_saved[t] = <<>> THEN EmptyText ELSE last_saved[t][1]
    /\ \A t \in TaskTypes, s1, s2 \in SummaryTexts :
          get_session_summary(
              save_session_summary(save_session_summary(session_summary, t, s1), t, s2),
              t) = s2

\* a run has replaced an existing summary by a different text
C5_Witness ==
    \E p \in Procs :
        /\ proc[p].pc = "done" /\ obs[p].consolidated = 1
        /\ proc[p].prev_summary # EmptyText
        /\ get_session_summary(session_summary, proc[p].prompt_type) # EmptyText
        /\ get_session_summary(session_summary, proc[p].prompt_type) # proc[p].prev_summary

\* the Turn Record a step appended, if it appended one
Appended == prompt_history'[Len(prompt_history')]

\* C6: a run that ended by a failed completion call in the execution or the
\* revision step left the Turn Records and the summaries as they were when
\* its iteration began, and every Turn Record a step appends carries the
\* prompt and the response of the backend's last answer to that process.
C6_FailedCompletionWritesNothing ==
    /\ [](\A p \in Procs :
             proc[p].pc = "crashed" /\ obs[p].fail_at \in {"execute", "revise"} =>
                 obs[p].iter_store = store)
    /\ [][\A p \in Procs :
             proc'[p] # proc[p] /\ Len(prompt_history') > Len(prompt_history) =>
                 /\ proc[p].pc \notin {"execute", "crashed"}
                 /\ obs[p].rendered
                 /\ obs[p].served = <<proc[p].filled_prompt, proc[p].response>>
                 /\ Appended.prompt = obs[p].served[1]
                 /\ Appended.result = obs[p].served[2]
                 /\ Appended.result \in Responses
                 /\ Appended.prompt =
                        Format(proc[p].current_prompt, proc[p].variables).text
         ]_vars

\* the revision call failed after feedback was typed, on a store that
\* already held a Turn Record
C6_Witness ==
    \E p \in Procs :
        /\ proc[p].pc = "crashed" /\ obs[p].fail_at = "revise"
        /\ proc[p].learn /\ proc[p].problems # EmptyText
        /\ Len(prompt_history) = 1

\* C7: when rendering fails with a KeyError for name n, the step asks for n,
\* adds exactly n to the variables and stays at the render step; the
\* template, the response, the rendered prompt and the store are unchanged.
C7_MissingVariableRecovered ==
    [][\A p \in Procs :
          ( /\ proc[p].pc = "format"
            /\ Format(proc[p].current_prompt, proc[p].variables).kind = "KeyError"
            /\ proc'[p] # proc[p] ) =>
              LET n == Format(proc[p].current_prompt, proc[p].variables).key
              IN  /\ n \notin DOMAIN proc[p].variables
                  /\ proc'[p].pc = "format"
                  /\ obs'[p].solicited = n
                  /\ DOMAIN proc'[p].variables = DOMAIN proc[p].variables \cup {n}
                  /\ \A k \in DOMAIN proc[p].variables :
                         proc'[p].variables[k] = proc[p].variables[k]
                  /\ proc'[p].current_prompt = proc[p].current_prompt
                  /\ proc'[p].response = proc[p].response
                  /\ proc'[p].filled_prompt = proc[p].filled_prompt
                  /\ store' = store
      ]_vars

\* after a revision, a value for w was asked for and stored, and the loop is
\* at the render step again
C7_Witness ==
    \E p \in Procs :
        /\ proc[p].pc = "format" /\ obs[p].solicited = "w"
        /\ obs[p].revisions = 1 /\ "w" \in DOMAIN proc[p].variables

\* C8: when every placeholder that input_missing_vars extracts from the
\* template has a value, rendering does not fail with a KeyError.
C8_PlaceholderClosure ==
    \A p \in Procs :
        ( /\ proc[p].pc = "format"
          /\ Placeholders(proc[p].current_prompt) \subseteq DOMAIN proc[p].variables ) =>
            Format(proc[p].current_prompt, proc[p].variables).kind # "KeyError"

\* C9 as claimed: at every render attempt the placeholders of the template
\* all have a value.
C9_PlaceholdersKnownAtEveryRender ==
    \A p \in Procs :
        proc[p].pc = "format" =>
            Placeholders(proc[p].current_prompt) \subseteq DOMAIN proc[p].variables

\* C9 as amended: at every render attempt before the first revision of the
\* run, the placeholders of the template all have a value.
C9_PlaceholdersKnownBeforeRevision ==
    \A p \in Procs :
        proc[p].pc = "format" /\ obs[p].revisions = 0 =>
            Placeholders(proc[p].current_prompt) \subseteq DOMAIN proc[p].variables

\* the first render of a template with two placeholders
C9_Witness ==
    \E p \in Procs :
        /\ proc[p].pc = "format" /\ obs[p].revisions = 0
        /\ proc[p].current_prompt = <<"{a}", "{w}">>
        /\ DOMAIN proc[p].variables = {"a", "w"}

\* C10: a run consolidates at most once; a run that left the loop after the
\* acceptance question has consolidated once in learning mode and not at all
\* otherwise; a consolidation happens only in learning mode, after the
\* acceptance question was answered in an iteration without feedback; a run
\* that ended by a formatting error or a failure has not consolidated.
C10_ConsolidationOncePerConfirmedExit ==
    \A p \in Procs :
        /\ obs[p].consolidated \in {0, 1}
        /\ proc[p].pc = "done" =>
              /\ obs[p].answered
              /\ obs[p].consolidated = IF proc[p].learn THEN 1 ELSE 0
        /\ obs[p].consolidated = 1 =>
              /\ proc[p].learn /\ obs[p].answered /\ obs[p].asked
              /\ proc[p].problems = EmptyText
              /\ proc[p].pc = "done"
        /\ proc[p].pc = "summarize" =>
              /\ proc[p].learn /\ obs[p].answered /\ obs[p].asked
              /\ proc[p].problems = EmptyText
        /\ proc[p].pc \in {"rejected", "crashed"} => obs[p].consolidated = 0
        /\ ~proc[p].learn => obs[p].consolidated = 0 /\ proc[p].pc # "summarize"

\* a learning-mode run went through a revision, then the acceptance
\* question, and consolidated
C10_Witness ==
    \E p \in Procs :
        /\ proc[p].pc = "done" /\ proc[p].learn
        /\ obs[p].consolidated = 1 /\ obs[p].revisions = 1


\* C11: within an iteration the steps come strictly in the order render,
\* execute, solicit feedback: the backend is called only with the prompt
\* rendered from the active template and the variables, feedback is read only
\* after the backend answered that prompt, and the revision call and the
\* acceptance prompt come only after feedback was read; a process is at one
\* step at a time, and each step hands over to the next one only.
C11_StepOrder ==
    /\ [](\A p \in Procs :
            /\ obs[p].executed => obs[p].rendered
            /\ obs[p].fed => obs[p].executed
            /\ proc[p].pc = "format" =>
                   ~obs[p].rendered /\ ~obs[p].executed /\ ~obs[p].fed
            /\ proc[p].pc = "execute" =>
                   /\ obs[p].rendered /\ ~obs[p].executed /\ ~obs[p].fed
                   /\ Format(proc[p].current_prompt, proc[p].variables) =
                          [kind |-> "ok", key |-> "", text |-> proc[p].filled_prompt]
            /\ proc[p].pc = "feedback" =>
                   /\ obs[p].rendered /\ obs[p].executed /\ ~obs[p].fed
                   /\ obs[p].served = <<proc[p].filled_prompt, proc[p].response>>
            /\ proc[p].pc \in {"revise", "accept"} =>
                   /\ obs[p].rendered /\ obs[p].executed /\ obs[p].fed
                   /\ obs[p].served = <<proc[p].filled_prompt, proc[p].response>>)
    /\ [][\A p \in Procs :
            /\ (~obs[p].rendered /\ obs'[p].rendered) =>
                   proc[p].pc = "format" /\ proc'[p].pc = "execute"
            /\ (~obs[p].executed /\ obs'[p].executed) =>
                   proc[p].pc = "execute" /\ proc'[p].pc = "feedback"
            /\ (~obs[p].fed /\ obs'[p].fed) =>
                   proc[p].pc = "feedback" /\ proc'[p].pc \in {"revise", "accept"}]_vars

\* the second iteration of a run has rendered, executed and read feedback
C11_Witness ==
    \E p \in Procs :
        /\ obs[p].revisions = 1 /\ proc[p].pc = "accept"
        /\ obs[p].rendered /\ obs[p].executed /\ obs[p].fed


\* the steps of the loop after the feedback of an iteration was read, common
\* to both readings of C12: non-empty feedback leads to the revision call,
\* empty feedback to the acceptance question; the answer (stripped, lower
\* case) decides accepted; after the answer nothing is rendered or executed
\* any more and the run only goes on to its end
ExitSteps(p) ==
    /\ proc[p].pc = "feedback" =>
           proc'[p].pc = IF proc'[p].problems # EmptyText THEN "revise" ELSE "accept"
    /\ proc[p].pc = "accept" =>
           /\ proc'[p].pc = "save_files"
           /\ proc'[p].accepted = 1 <=> Lower(Strip(obs'[p].answer)) = <<"y">>
    /\ proc[p].pc \in {"accept", "save_files", "summarize"} =>
           /\ proc'[p].pc \in {"save_files", "summarize", "done", "crashed"}
           /\ proc'[p].current_prompt = proc[p].current_prompt
           /\ proc'[p].filled_prompt = proc[p].filled_prompt
           /\ obs'[p].served = obs[p].served
           /\ obs'[p].revisions = obs[p].revisions

\* C12 as stated: after non-empty feedback the template is replaced by the
\* revision output and the loop always returns to rendering, it never
\* terminates in that iteration; after empty feedback the run records the
\* answer and terminates without a further render or execution.
C12_ExitDecidedByFeedback ==
    [][\A p \in Procs : proc'[p] # proc[p] =>
          /\ ExitSteps(p)
          /\ proc[p].pc = "revise" =>
                 /\ proc'[p].pc = "format"
                 /\ proc'[p].current_prompt = Strip(obs'[p].revision_raw)]_vars

\* C12, amended: after non-empty feedback either the revision call returns,
\* its stripped output becomes the template and the loop returns to
\* rendering, or the revision call fails and the run ends in that iteration
\* with template and store unchanged; after empty feedback the run records
\* the answer and terminates without a further render or execution.
C12_ExitDecidedByFeedbackOrFailure ==
    [][\A p \in Procs : proc'[p] # proc[p] =>
          /\ ExitSteps(p)
          /\ proc[p].pc = "revise" =>
                 \/ /\ proc'[p].pc = "format"
                    /\ proc'[p].current_prompt = Strip(obs'[p].revision_raw)
                    /\ obs'[p].revisions = obs[p].revisions + 1
                 \/ /\ proc'[p].pc = "crashed"
                    /\ obs'[p].fail_at = "revise"
                    /\ proc'[p].current_prompt = proc[p].current_prompt
                    /\ store' = store]_vars

\* a run that revised once and then ended on the answer " Y"
C12_Witness ==
    \E p \in Procs :
        /\ proc[p].pc = "done" /\ obs[p].revisions = 1
        /\ obs[p].revision_raw = <<" ", "{a}", "{w}", " ">>
        /\ proc[p].current_prompt = <<"{a}", "{w}">>
        /\ obs[p].answer = <<" ", "Y">> /\ proc[p].accepted = 1

\* C13: when rendering fails with an error other than a missing variable,
\* the iteration is abandoned: the backend is not called for that template,
\* no Turn Record is written and no summary consolidated, the template is
\* never rendered again, and the process goes on only by starting a new run,
\* which loads a template anew.
C13_MalformedTemplateAbandons ==
    /\ [](\A p \in Procs : proc[p].pc = "rejected" =>
            /\ Format(proc[p].current_prompt, proc[p].variables).kind = "error"
            /\ ~obs[p].rendered /\ ~obs[p].executed /\ ~obs[p].fed
            /\ obs[p].consolidated = 0
            /\ store = obs[p].iter_store)
    /\ [][\A p \in Procs : proc'[p] # proc[p] =>
            /\ (/\ proc[p].pc = "format"
                /\ Format(proc[p].current_prompt, proc[p].variables).kind = "error") =>
                   /\ proc'[p] = [proc[p] EXCEPT !.pc = "rejected"]
                   /\ obs'[p] = obs[p]
                   /\ store' = store
            /\ proc[p].pc = "rejected" =>
                   /\ proc'[p].pc = "load"
                   /\ proc'[p].current_prompt = EmptyText
                   /\ obs'[p].run # obs[p].run]_vars

\* a learning run whose revision output "{" was rejected at the next render
C13_Witness ==
    \E p \in Procs :
        /\ proc[p].pc = "rejected" /\ proc[p].learn
        /\ obs[p].revisions = 1 /\ proc[p].current_prompt = <<StrayBrace>>
        /\ Len(prompt_history) = 1

\* C14: a run without learning never touches the store: none of its steps
\* appends a Turn Record, upserts a summary or allocates a session id, the
\* classifier is not invoked, no summary is read, and the summary that goes
\* into the revision meta-prompt is the empty text.
C14_NonLearningLeavesStore ==
    /\ [](\A p \in Procs : (~proc[p].learn /\ proc[p].pc # "idle") =>
            /\ proc[p].session = NoSession
            /\ proc[p].prompt_type = EmptyText
            /\ proc[p].rev_summary = EmptyText
            /\ proc[p].prev_summary = EmptyText
            /\ proc[p].feedbacks = <<>>
            /\ proc[p].pc \notin {"detect", "summarize"}
            /\ obs[p].fail_at \notin {"classify", "detect", "summarize"}
            /\ obs[p].consolidated = 0
            /\ \A k \in 1..Len(written_by) : written_by[k] # obs[p].run)
    /\ [][\A p \in Procs : (proc'[p] # proc[p] /\ ~proc'[p].learn) =>
            /\ store' = store
            /\ written_by' = written_by
            /\ allocated' = allocated
            /\ last_saved' = last_saved]_vars

\* a run without learning is about to make the revision call while the
\* store holds Turn Records and a summary of an earlier learning run
C14_Witness ==
    \E p \in Procs :
        /\ ~proc[p].learn /\ proc[p].pc = "revise"
        /\ proc[p].rev_summary = EmptyText
        /\ prompt_history # <<>>
        /\ \E r \in session_summary : r.summary # EmptyText

\* the session ids of the Turn Records stored
StoredSessions == {prompt_history[k].session : k \in 1..Len(prompt_history)}

\* C15: a session id is not reserved by computing it.  With two processes on
\* one store, a learning run that starts while another learning run holds a
\* session id under which (or above which) nothing is stored yet computes
\* that same id, and every Turn Record is stored under the id its run
\* computed; so the Turn Records of two different runs can end up under one
\* session id (the witness).
C15_SessionIdNotReserved ==
    /\ [](\A p \in Procs : \A k \in 1..Len(prompt_history) :
            written_by[k] = obs[p].run => prompt_history[k].session = proc[p].session)
    /\ [][\A p \in Procs : \A q \in Procs \ {p} :
            (/\ proc[p].pc \in Ended /\ proc'[p].pc = "load" /\ proc'[p].learn
             /\ proc[q].learn /\ proc[q].pc # "idle"
             /\ \A s \in StoredSessions : s < proc[q].session)
            => proc'[p].session = proc[q].session]_vars

\* Turn Records of two different runs stand under one session id
C15_Witness ==
    \E j, k \in 1..Len(prompt_history) :
        /\ written_by[j] # written_by[k]
        /\ prompt_history[j].session = prompt_history[k].session

\* the feedback texts of the Turn Records of a session with non-empty
\* feedback, in the order of the records
FeedbacksOf(session_) ==
    LET idx == {k \in 1..Len(prompt_history) :
                  /\ prompt_history[k].session = session_
                  /\ prompt_history[k].feedback # EmptyText}
        nth(i) == CHOOSE k \in idx : Cardinality({j \in idx : j <= k}) = i
    IN  [i \in 1..Cardinality(idx) |-> prompt_history[nth(i)].feedback]

\* the feedbacks in the summary meta-prompt are those of the session, and the
\* answer of the backend is upserted as the summary of the type (both
\* readings of C16)
ConsolidationInput ==
    /\ [](\A p \in Procs : proc[p].pc = "summarize" =>
            proc[p].feedbacks = FeedbacksOf(proc[p].session))
    /\ [][\A p \in Procs :
            (proc[p].pc = "summarize" /\ proc'[p].pc = "done") =>
               \E raw \in SummaryOutputs :
                  session_summary' =
                      {r \in session_summary : r.type # proc[p].prompt_type}
                          \cup {[type |-> proc[p].prompt_type, summary |-> Strip(raw)]}]_vars

\* C16 as stated: the feedback list of the summary meta-prompt is exactly the
\* non-empty feedbacks of the Turn Records of the current session; the merge
\* shape is used if and only if a summary of the detected type already
\* exists; the answer is upserted as the summary of the type.
C16_MergeIffSummaryExists ==
    /\ ConsolidationInput
    /\ [](\A p \in Procs : proc[p].pc = "summarize" =>
            (proc[p].shape = "merge" <=>
                \E r \in session_summary : r.type = proc[p].prompt_type))

\* C16, amended: as above, but the merge shape is used if and only if a
\* summary of the detected type exists and is not empty; with an empty one
\* the feedbacks are summarized alone.
C16_MergeIffSummaryNonEmpty ==
    /\ ConsolidationInput
    /\ [](\A p \in Procs : proc[p].pc = "summarize" =>
            /\ proc[p].shape \in {"merge", "alone"}
            /\ proc[p].shape = "merge" <=>
                  \E r \in session_summary :
                      r.type = proc[p].prompt_type /\ r.summary # EmptyText
            /\ proc[p].shape = "merge" =>
                  \E r \in session_summary :
                      r.type = proc[p].prompt_type /\ r.summary = proc[p].prev_summary)

\* the summary call of a run is pending in the merge shape, over the summary
\* an earlier run stored for the type
C16_Witness ==
    \E p \in Procs :
        /\ proc[p].pc = "summarize" /\ proc[p].shape = "merge"
        /\ proc[p].prev_summary \in SummaryTexts \ {EmptyText}
        /\ Len(prompt_history) = 2

\* the Turn Records a run wrote
RecordsOf(run) == {k \in 1..Len(written_by) : written_by[k] = run}

\* C17: in a learning run every iteration in which feedback was read and the
\* step after it completed (the revision returned, or the acceptance
\* question was answered) appends exactly one Turn Record, which holds the
\* rendered prompt, the response and the feedback of that iteration; no
\* other step of the run appends one, so a run with k such iterations has
\* appended exactly k records.
C17_OneRecordPerDecidedIteration ==
    /\ [](\A p \in Procs : (proc[p].learn /\ proc[p].pc # "idle") =>
            Cardinality(RecordsOf(obs[p].run)) = obs[p].decided)
    /\ [][\A p \in Procs : (proc[p].learn /\ obs'[p].run = obs[p].run) =>
            /\ obs'[p].decided \in {obs[p].decided, obs[p].decided + 1}
            /\ obs'[p].decided = obs[p].decided + 1 =>
                   /\ proc[p].pc \in {"revise", "accept"}
                   /\ obs[p].rendered /\ obs[p].executed /\ obs[p].fed
                   /\ Len(prompt_history') = Len(prompt_history) + 1
                   /\ SubSeq(prompt_history', 1, Len(prompt_history)) = prompt_history
                   /\ Appended.session = proc[p].session
                   /\ Appended.prompt = proc[p].filled_prompt
                   /\ Appended.result = proc[p].response
                   /\ Appended.feedback = Strip(obs[p].typed)
                   /\ written_by'[Len(written_by')] = obs[p].run
            /\ (obs'[p].decided = obs[p].decided /\ proc'[p] # proc[p]) =>
                   prompt_history' = prompt_history]_vars

\* a learning run that revised once and was then answered has two records
C17_Witness ==
    \E p \in Procs :
        /\ proc[p].learn /\ proc[p].pc = "save_files"
        /\ obs[p].decided = 2 /\ Cardinality(RecordsOf(obs[p].run)) = 2
        /\ prompt_history[1].feedback # EmptyText
        /\ prompt_history[2].feedback = EmptyText

\* C18: the classifier yields a label that is not empty, holds no
\* whitespace and is the first word of the backend's answer in lower case,
\* or it fails; and its failure (an answer without a word, a failed call)
\* does not end a learning run.
C18_ClassifierLabelOrNonFatalFailure ==
    \A p \in Procs :
        /\ (proc[p].learn /\ proc[p].pc \notin {"idle", "load", "detect", "crashed"}) =>
               /\ proc[p].prompt_type # EmptyText
               /\ Len(proc[p].prompt_type) = 1
               /\ ~IsSpace(proc[p].prompt_type[1])
               /\ proc[p].prompt_type = Lower(proc[p].prompt_type)
               /\ proc[p].prompt_type \in TaskTypes
        /\ proc[p].pc = "crashed" => obs[p].fail_at \notin {"classify", "detect"}

\* C19: every Turn Record with accepted = 1 has empty feedback and every
\* Turn Record with non-empty feedback has accepted = 0; a record with
\* accepted = 1 is only written by the step that answers the acceptance
\* question of an iteration with empty feedback, and only on the answer y.
C19_AcceptedExcludesFeedback ==
    /\ [](\A k \in 1..Len(prompt_history) :
            /\ prompt_history[k].accepted \in {0, 1}
            /\ prompt_history[k].accepted = 1 => prompt_history[k].feedback = EmptyText
            /\ prompt_history[k].feedback # EmptyText => prompt_history[k].accepted = 0)
    /\ [][(Len(prompt_history') > Len(prompt_history) /\ Appended.accepted = 1) =>
            \E p \in Procs :
                /\ proc[p].pc = "accept" /\ proc'[p].pc = "save_files"
                /\ Strip(obs[p].typed) = EmptyText
                /\ Lower(Strip(obs'[p].answer)) = <<"y">>]_vars

\* a run stored a turn with feedback (not accepted) and then an accepted
\* turn without feedback
C19_Witness ==
    /\ Len(prompt_history) = 2
    /\ prompt_history[1].feedback # EmptyText /\ prompt_history[1].accepted = 0
    /\ prompt_history[2].feedback = EmptyText /\ prompt_history[2].accepted = 1

\* the rows of the summary table for a task type
RowsOf(table, t) == {r \in table : r.type = t}

\* C20: the summary table holds at most one summary per task type in every
\* reachable state, and a step that saves the summary of a type changes the
\* row of that type only: the rows of the other types and all Turn Records
\* stay as they were.
C20_OneSummaryPerType ==
    /\ [](\A r1, r2 \in session_summary : r1.type = r2.type => r1 = r2)
    /\ [][session_summary' # session_summary =>
            \E p \in Procs :
                /\ proc[p].pc = "summarize" /\ proc'[p].pc = "done"
                /\ Cardinality(RowsOf(session_summary', proc[p].prompt_type)) = 1
                /\ \A t \in TaskTypes \ {proc[p].prompt_type} :
                       RowsOf(session_summary', t) = RowsOf(session_summary, t)
                /\ \A r \in session_summary' : r.type \in TaskTypes
                /\ prompt_history' = prompt_history
                /\ written_by' = written_by]_vars

\* the summaries of two task types are stored, the second saved while the
\* first was there
C20_Witness ==
    /\ Cardinality(session_summary) = 2
    /\ \A t \in TaskTypes : last_saved[t] # <<>> /\ RowsOf(session_summary, t) # {}
    /\ prompt_history # <<>>

\* C21: in a learning run the session id is fixed at its start and the task
\* type by the classifier before the first iteration, and neither changes
\* afterwards, revisions of the template included (the classifier runs once,
\* on the loaded template); every Turn Record of the run carries that
\* session id and that task type, and the summary read for a revision and
\* the summary upserted at consolidation are those of that task type.
C21_SessionAndTypeFixed ==
    /\ [](\A p \in Procs : (proc[p].learn /\ proc[p].pc # "idle") =>
            /\ \A k \in RecordsOf(obs[p].run) :
                   /\ prompt_history[k].session = proc[p].session
                   /\ prompt_history[k].type = proc[p].prompt_type
            /\ proc[p].pc = "revise" =>
                   proc[p].rev_summary =
                       get_session_summary(session_summary, proc[p].prompt_type)
            /\ proc[p].pc = "summarize" =>
                   proc[p].prev_summary =
                       get_session_summary(session_summary, proc[p].prompt_type))
    /\ [][\A p \in Procs : (proc[p].learn /\ obs'[p].run = obs[p].run) =>
            /\ proc'[p].session = proc[p].session
            /\ proc[p].pc # "detect" => proc'[p].prompt_type = proc[p].prompt_type
            /\ proc'[p].pc = "detect" => proc[p].pc = "load"
            /\ (proc[p].pc = "summarize" /\ proc'[p].pc = "done") =>
                   /\ RowsOf(session_summary', proc[p].prompt_type) # {}
                   /\ last_saved'[proc[p].prompt_type] # <<>>
                   /\ \A t \in TaskTypes \ {proc[p].prompt_type} :
                          last_saved'[t] = last_saved[t]]_vars

\* a learning run wrote two Turn Records, one before and one after its
\* template was replaced, both under its session id and task type
C21_Witness ==
    \E p \in Procs :
        /\ proc[p].learn /\ proc[p].pc = "save_files" /\ obs[p].revisions = 1
        /\ Cardinality(RecordsOf(obs[p].run)) = 2
        /\ prompt_history[1].prompt # prompt_history[2].prompt
        /\ prompt_history[1].type = prompt_history[2].type
        /\ prompt_history[1].session = prompt_history[2].session

\* C22: the variable mapping of a run only grows.  No step removes a key or
\* changes the value of a key; after the mapping was loaded, the proactive
\* fill adds placeholders of the template that had no mapping, the
\* missing-variable recovery adds the one name the render missed, and no
\* other step touches the mapping: a revision replaces the template and
\* leaves the mapping as it was.
C22_VariablesOnlyGrow ==
    [][\A p \in Procs : (obs'[p].run = obs[p].run /\ proc[p].pc # "idle") =>
          LET V == proc[p].variables
              W == proc'[p].variables
              T == proc[p].current_prompt
          IN  /\ \A k \in DOMAIN V : k \in DOMAIN W /\ W[k] = V[k]
              /\ proc[p].pc = "load" => W \in stored_vars
              /\ proc[p].pc = "fill" =>
                     \E fv \in stored_vars :
                        LET base == IF V = EmptyVars THEN fv ELSE V
                        IN  /\ \A k \in DOMAIN base : k \in DOMAIN W /\ W[k] = base[k]
                            /\ (DOMAIN W) \ (DOMAIN base) \subseteq Placeholders(T)
              /\ (proc[p].pc = "format" /\ W # V) =>
                     /\ Format(T, V).kind = "KeyError"
                     /\ Format(T, V).key \notin DOMAIN V
                     /\ DOMAIN W = DOMAIN V \cup {Format(T, V).key}
                     /\ proc'[p].current_prompt = T
              /\ proc[p].pc \notin {"load", "fill", "format"} => W = V]_vars

\* after a revision brought a new placeholder, the loaded value of the old
\* one is still there next to the typed value of the new one
C22_Witness ==
    \E p \in Procs :
        /\ proc[p].pc = "execute" /\ obs[p].revisions = 1
        /\ proc[p].current_prompt = <<"{a}", "{w}">>
        /\ proc[p].variables = [k \in {"a", "w"} |-> IF k = "a" THEN "v0" ELSE "v1"]
        /\ proc[p].filled_prompt = <<"v0", "v1">>

\* the non-empty feedback texts of the Turn Records a run wrote, in the
\* order of the records
OwnFeedbacks(run) ==
    LET idx == {k \in RecordsOf(run) : prompt_history[k].feedback # EmptyText}
        nth(i) == CHOOSE k \in idx : Cardinality({j \in idx : j <= k}) = i
    IN  [i \in 1..Cardinality(idx) |-> prompt_history[nth(i)].feedback]

\* C23: consolidation selects the feedback by session id only.  With two
\* processes on one store, the feedback list a run reads at consolidation is
\* the non-empty feedback of all Turn Records under its session id, whatever
\* run wrote them and whatever their task type; it can therefore hold
\* feedback another run wrote under the same id for another task type, and
\* that goes into the run's summary (the witness).  As long as only one
\* process has used the store, the list is exactly the feedback entered in
\* the current run.
C23_FeedbackSelectedBySessionOnly ==
    /\ [][\A p \in Procs :
            (proc[p].pc = "save_files" /\ proc'[p].pc = "summarize") =>
                proc'[p].feedbacks = FeedbacksOf(proc[p].session)]_vars
    /\ [](\A p \in Procs :
            (/\ proc[p].pc = "summarize"
             /\ \A q \in Procs \ {p} : proc[q].pc = "idle") =>
                /\ proc[p].feedbacks = OwnFeedbacks(obs[p].run)
                /\ \A k \in 1..Len(prompt_history) :
                       prompt_history[k].session = proc[p].session =>
                           written_by[k] = obs[p].run)

\* a run that entered no feedback itself has consolidated the feedback that
\* a concurrent run wrote, for another task type, under the same session id
C23_Witness ==
    \E p \in Procs : \E k \in 1..Len(prompt_history) :
        /\ proc[p].pc = "done" /\ obs[p].consolidated = 1
        /\ OwnFeedbacks(obs[p].run) = <<>>
        /\ proc[p].feedbacks = <<prompt_history[k].feedback>>
        /\ prompt_history[k].feedback # EmptyText
        /\ written_by[k] # obs[p].run
        /\ prompt_history[k].session = proc[p].session
        /\ prompt_history[k].type # proc[p].prompt_type
        /\ RowsOf(session_summary, proc[p].prompt_type) # {}
====
